---- MODULE Spec2Model ----
(***************************************************************************)
(* Clock configuration of the STM32F40x HAL: the CFGRBuilder of rcc.rs,    *)
(* its configuration calls and build(), which validates the derived        *)
(* frequencies and programs RCC_CFGR, RCC_PLLCFGR and FLASH_ACR.           *)
(*                                                                         *)
(* Numbers.  Every quantity of the code is a u32.  TLC's integers are      *)
(* 32-bit signed, so the inputs are drawn from sets whose values, and the  *)
(* values stored from them, stay below 2^31; the one place where the code  *)
(* can exceed that, the product vco * pll_n, is computed exactly in two    *)
(* 16-bit limbs and reduced modulo 2^32 as the hardware does.              *)
(***************************************************************************)
EXTENDS Integers, Sequences, FiniteSets, TLC

VARIABLES
    builder,          \* the CFGRBuilder value threaded through the calls
    hw,               \* register contents: [cfgr, pllcfgr, acr]
    overflow_checks,  \* build profile: TRUE = arithmetic overflow panics
    phase,            \* "building" | "returned" | "panicked"
    clocks,           \* Option<Clocks>: the record build() returned
    writes,           \* register writes issued by build(), in order
    panic,            \* "none", or the place where build() panicked
    wrapped,          \* build() used a product reduced modulo 2^32
    pll_source        \* source in effect at the latest enable_pll call

vars == <<builder, hw, overflow_checks, phase, clocks, writes, panic,
          wrapped, pll_source>>

-----------------------------------------------------------------------------
(* Option<T> *)
None == <<>>
Some(x) == <<x>>
IsSome(o) == o # <<>>
Unwrap(o) == o[1]
UnwrapOr(o, d) == IF o = <<>> THEN d ELSE o[1]

(* enum ClockSource *)
HSI == [kind |-> "HSI", freq |-> 0]
HSE(f) == [kind |-> "HSE", freq |-> f]

HSI_FREQ == 16000000
HCLK_MAX == 168000000
PCLK1_MAX == 42000000
PCLK2_MAX == 84000000
VCO_MIN == 100000000
VCO_MAX == 432000000

(* the match on self.source that build() repeats *)
SourceFreq(s) == IF s.kind = "HSI" THEN HSI_FREQ ELSE s.freq

-----------------------------------------------------------------------------
(* u32 arithmetic *)
Limb == 2^16

(* a * b, exact, as [hi, lo] with value hi * 2^16 + lo; needs a < 2^31 and *)
(* b < 2^15                                                                *)
MulLimbs(a, b) ==
    LET lo == (a % Limb) * b
        hi == (a \div Limb) * b + (lo \div Limb)
    IN  [hi |-> hi, lo |-> lo % Limb]

Overflows(x) == x.hi >= Limb
WrapU32(x) == [hi |-> x.hi % Limb, lo |-> x.lo]

(* x / d for a u32 x in limbs, d > 0 *)
DivLimbs(x, d) ==
    LET q1 == x.hi \div d
        r1 == x.hi % d
        q2 == (r1 * Limb + x.lo) \div d
    IN  q1 * Limb + q2

(* lo <= x <= hi for a u32 x in limbs and bounds below 2^31 *)
LimbsWithin(x, lo, hi) ==
    /\ x.hi < Limb \div 2
    /\ lo <= x.hi * Limb + x.lo
    /\ x.hi * Limb + x.lo <= hi

-----------------------------------------------------------------------------
(* variant: a default builder on an external 8 MHz source *)
constrain_external ==
    [source |-> HSE(8000000), pll |-> None, ahb_prescale |-> None,
     apb1_prescale |-> None, apb2_prescale |-> None]

(* RccExt::constrain: the default builder *)
constrain ==
    [source |-> HSI, pll |-> None, ahb_prescale |-> None,
     apb1_prescale |-> None, apb2_prescale |-> None]

(* variant: the divider rounded down instead of up *)
PllM_floor(src) ==
    IF src.kind = "HSI" THEN 8
    ELSE src.freq \div 2000000

PllM(src) ==
    IF src.kind = "HSI" THEN 8
    ELSE (src.freq + 1999999) \div 2000000

(* variant: changing the source recomputes pll_m *)
source_recomputing_m(self, src) ==
    [self EXCEPT !.source = src,
                 !.pll = IF IsSome(@) THEN Some([@[1] EXCEPT ![1] = PllM(src)])
                                      ELSE @]

source(self, src) == [self EXCEPT !.source = src]

enable_pll(self, pll_n, pll_p, pll_q) ==
    [self EXCEPT !.pll = Some(<<PllM(self.source), pll_n, pll_p, pll_q>>)]

(* variant: the APB2 setter stores into the APB1 field *)
apb2_prescale_into_apb1(self, scale) ==
    [self EXCEPT !.apb1_prescale = Some(scale)]

ahb_prescale(self, scale) == [self EXCEPT !.ahb_prescale = Some(scale)]
apb1_prescale(self, scale) == [self EXCEPT !.apb1_prescale = Some(scale)]
apb2_prescale(self, scale) == [self EXCEPT !.apb2_prescale = Some(scale)]

-----------------------------------------------------------------------------
(* Registers.  reg.write(|w| w.field().bits(v)) of the device crate stores *)
(* the register's reset value with the named field replaced: it is not a   *)
(* read-modify-write (that is reg.modify, which build() never calls).      *)
CFGR_RESET == [hpre |-> 0, ppre1 |-> 0, ppre2 |-> 0, sw |-> 0]
PLLCFGR_RESET == [pllsrc |-> 0, pllm |-> 16, plln |-> 192, pllp |-> 0, pllq |-> 4]
ACR_RESET == [latency |-> 0]

ResetOf(reg) ==
    CASE reg = "cfgr" -> CFGR_RESET
      [] reg = "pllcfgr" -> PLLCFGR_RESET
      [] reg = "acr" -> ACR_RESET

RegValueAfterWrite(reg, field, bits) == [ResetOf(reg) EXCEPT ![field] = bits]

(* one write, issued by `stage` of build(), applied to the execution x *)
RegWrite(x, stage, reg, field, bits) ==
    [x EXCEPT ![reg] = RegValueAfterWrite(reg, field, bits),
              !.writes = Append(@, [stage |-> stage, reg |-> reg,
                                    field |-> field, bits |-> bits])]

Panic(x, where) == [x EXCEPT !.panic = where]

SW_HSI == 0
SW_HSE == 1
SW_PLL == 2
PLLSRC_INTERNAL == 0
PLLSRC_EXTERNAL == 1

-----------------------------------------------------------------------------
(* build(): the bit-code tables; Invalid stands for the panicking arm *)
Invalid == -1

(* variant: a power-of-two range check instead of the discrete table *)
AhbPrescaleBits_range(v) ==
    IF v \in {1, 2, 4, 8, 16, 32, 64, 128, 256, 512} THEN 0 ELSE Invalid

AhbPrescaleBits(v) ==
    CASE v = 1 -> 0
      [] v = 2 -> 8
      [] v = 4 -> 9
      [] v = 8 -> 10
      [] v = 16 -> 11
      [] v = 64 -> 12
      [] v = 128 -> 13
      [] v = 256 -> 14
      [] v = 512 -> 15
      [] OTHER -> Invalid

Apb1PrescaleBits(v) ==
    CASE v = 1 -> 0
      [] v = 2 -> 4
      [] v = 4 -> 5
      [] v = 8 -> 6
      [] v = 16 -> 7
      [] OTHER -> Invalid

Apb2PrescaleBits(v) ==
    CASE v = 1 -> 0
      [] v = 2 -> 4
      [] v = 4 -> 5
      [] v = 8 -> 6
      [] v = 16 -> 7
      [] OTHER -> Invalid

PllPBits(v) ==
    CASE v = 2 -> 0
      [] v = 4 -> 1
      [] v = 6 -> 2
      [] v = 8 -> 3
      [] OTHER -> Invalid

(* variant: exclusive upper bounds *)
FlashLatency_exclusive(hclk_freq) ==
    IF hclk_freq < 30000000 THEN 0
    ELSE IF hclk_freq < 60000000 THEN 1
    ELSE IF hclk_freq < 90000000 THEN 2
    ELSE IF hclk_freq < 120000000 THEN 3
    ELSE IF hclk_freq < 150000000 THEN 4
    ELSE 5

FlashLatency(hclk_freq) ==
    IF hclk_freq <= 30000000 THEN 0
    ELSE IF hclk_freq <= 60000000 THEN 1
    ELSE IF hclk_freq <= 90000000 THEN 2
    ELSE IF hclk_freq <= 120000000 THEN 3
    ELSE IF hclk_freq <= 150000000 THEN 4
    ELSE 5

-----------------------------------------------------------------------------
(* build(), stage by stage.  An execution x carries the registers, the     *)
(* writes issued so far, the locals of build() and the panic, if any; a    *)
(* stage entered after a panic does nothing.                               *)
StartBuild(regs) ==
    [cfgr |-> regs.cfgr, pllcfgr |-> regs.pllcfgr, acr |-> regs.acr,
     writes |-> <<>>, panic |-> "none", wrapped |-> FALSE,
     sysclk_freq |-> 0, hclk_freq |-> 0,
     pclk1_freq |-> 0, ppre1 |-> 0, pclk2_freq |-> 0, ppre2 |-> 0]

(* vco * pll_n in u32: panics under overflow checks, wraps without them *)
VcoTimesN(self) ==
    LET pll == Unwrap(self.pll)
        exact == MulLimbs(SourceFreq(self.source) \div pll[1], pll[2])
    IN  [overflow |-> Overflows(exact), value |-> WrapU32(exact)]

SysclkStage(self, checked, x) ==
    IF ~IsSome(self.pll)
    THEN [x EXCEPT !.sysclk_freq = SourceFreq(self.source)]
    ELSE LET pll == Unwrap(self.pll) IN
         IF pll[1] = 0 THEN Panic(x, "sysclk: divide by zero (pll_m)")
         ELSE LET prod == VcoTimesN(self) IN
              IF prod.overflow /\ checked
              THEN Panic(x, "sysclk: multiply overflow")
              ELSE IF pll[3] = 0
              THEN Panic(x, "sysclk: divide by zero (pll_p)")
              ELSE [x EXCEPT !.sysclk_freq = DivLimbs(prod.value, pll[3]),
                             !.wrapped = prod.overflow]

AhbStage(self, x) ==
    IF x.panic # "none" THEN x
    ELSE LET scale == UnwrapOr(self.ahb_prescale, 1)
             bits == AhbPrescaleBits(scale)
         IN  IF bits = Invalid THEN Panic(x, "Invalid ahb_prescale value (HPRE)")
             ELSE LET hclk_freq == x.sysclk_freq \div scale IN
                  IF ~(hclk_freq <= HCLK_MAX) THEN Panic(x, "assert hclk_freq")
                  ELSE RegWrite([x EXCEPT !.hclk_freq = hclk_freq],
                                "ahb", "cfgr", "hpre", bits)

(* variant: the APB1 prescaler is written before its frequency is checked *)
Apb1Stage_write_first(self, x) ==
    IF x.panic # "none" THEN x
    ELSE LET scale == UnwrapOr(self.apb1_prescale, 1)
             bits == Apb1PrescaleBits(scale)
         IN  IF bits = Invalid THEN Panic(x, "Invalid apb1_prescale value (PPRE1)")
             ELSE LET apb1_freq == x.sysclk_freq \div scale
                      w == RegWrite([x EXCEPT !.pclk1_freq = apb1_freq,
                                              !.ppre1 = scale],
                                    "apb1", "cfgr", "ppre1", bits)
                  IN  IF ~(apb1_freq <= PCLK1_MAX) THEN Panic(w, "assert apb1_freq")
                      ELSE w

Apb1Stage(self, x) ==
    IF x.panic # "none" THEN x
    ELSE LET scale == UnwrapOr(self.apb1_prescale, 1)
             bits == Apb1PrescaleBits(scale)
         IN  IF bits = Invalid THEN Panic(x, "Invalid apb1_prescale value (PPRE1)")
             ELSE LET apb1_freq == x.sysclk_freq \div scale IN
                  IF ~(apb1_freq <= PCLK1_MAX) THEN Panic(x, "assert apb1_freq")
                  ELSE RegWrite([x EXCEPT !.pclk1_freq = apb1_freq,
                                          !.ppre1 = scale],
                                "apb1", "cfgr", "ppre1", bits)

Apb2Stage(self, x) ==
    IF x.panic # "none" THEN x
    ELSE LET scale == UnwrapOr(self.apb2_prescale, 1)
             bits == Apb2PrescaleBits(scale)
         IN  IF bits = Invalid THEN Panic(x, "Invalid apb2_prescale value (PPRE2)")
             ELSE LET apb2_freq == x.sysclk_freq \div scale IN
                  IF ~(apb2_freq <= PCLK2_MAX) THEN Panic(x, "assert apb2_freq")
                  ELSE RegWrite([x EXCEPT !.pclk2_freq = apb2_freq,
                                          !.ppre2 = scale],
                                "apb2", "cfgr", "ppre1", bits)

(* variant: the latency write is skipped when FLASH_ACR already holds it *)
FlashStage_skip_unchanged(self, x) ==
    IF x.panic # "none" THEN x
    ELSE IF x.acr.latency = FlashLatency(x.hclk_freq) THEN x
    ELSE RegWrite(x, "flash", "acr", "latency", FlashLatency(x.hclk_freq))

FlashStage(self, x) ==
    IF x.panic # "none" THEN x
    ELSE RegWrite(x, "flash", "acr", "latency", FlashLatency(x.hclk_freq))

PllCoefficientWrites(self, x) ==
    LET pll == Unwrap(self.pll)
        w1 == RegWrite(x, "pll", "pllcfgr", "pllm", pll[1])
        w2 == RegWrite(w1, "pll", "pllcfgr", "plln", pll[2])
        w3 == RegWrite(w2, "pll", "pllcfgr", "pllp", PllPBits(pll[3]))
    IN  RegWrite(w3, "pll", "pllcfgr", "pllq", pll[4])

PllValidate(self, checked, x) ==
    LET pll == Unwrap(self.pll)
        vco_freq == VcoTimesN(self)
    IN  IF vco_freq.overflow /\ checked THEN Panic(x, "vco: multiply overflow")
        ELSE IF ~(pll[1] >= 2 /\ pll[1] <= 63) THEN Panic(x, "assert pll_m")
        ELSE IF ~(pll[2] >= 50 /\ pll[2] <= 432) THEN Panic(x, "assert pll_n")
        ELSE IF ~(pll[3] \in {2, 4, 6, 8}) THEN Panic(x, "assert pll_p")
        ELSE IF ~(pll[4] >= 2 /\ pll[4] <= 15) THEN Panic(x, "assert pll_q")
        ELSE IF ~LimbsWithin(vco_freq.value, VCO_MIN, VCO_MAX)
        THEN Panic(x, "assert vco_freq")
        ELSE IF PllPBits(pll[3]) = Invalid THEN Panic(x, "Invalid pll_p value (PLLP)")
        ELSE x

(* variant: without the PLL the internal oscillator is always selected *)
ClockSourceStage_always_hsi(self, checked, x) ==
    IF x.panic # "none" THEN x
    ELSE IF IsSome(self.pll)
    THEN LET src == RegWrite(x, "pll", "pllcfgr", "pllsrc",
                             IF self.source.kind = "HSI" THEN PLLSRC_INTERNAL
                                                         ELSE PLLSRC_EXTERNAL)
             v == PllValidate(self, checked, src)
         IN  IF v.panic # "none" THEN v
             ELSE RegWrite(PllCoefficientWrites(self, v),
                           "sw", "cfgr", "sw", SW_PLL)
    ELSE RegWrite(x, "sw", "cfgr", "sw", SW_HSI)

ClockSourceStage(self, checked, x) ==
    IF x.panic # "none" THEN x
    ELSE IF IsSome(self.pll)
    THEN LET src == RegWrite(x, "pll", "pllcfgr", "pllsrc",
                             IF self.source.kind = "HSI" THEN PLLSRC_INTERNAL
                                                         ELSE PLLSRC_EXTERNAL)
             v == PllValidate(self, checked, src)
         IN  IF v.panic # "none" THEN v
             ELSE RegWrite(PllCoefficientWrites(self, v),
                           "sw", "cfgr", "sw", SW_PLL)
    ELSE RegWrite(x, "sw", "cfgr", "sw",
                  IF self.source.kind = "HSI" THEN SW_HSI ELSE SW_HSE)

(* variant: the flash latency is written after the clock source switch *)
build_switch_before_flash(self, regs, checked) ==
    FlashStage(self,
        ClockSourceStage(self, checked,
            Apb2Stage(self,
                Apb1Stage(self,
                    AhbStage(self,
                        SysclkStage(self, checked, StartBuild(regs)))))))

build(self, regs, checked) ==
    ClockSourceStage(self, checked,
        FlashStage(self,
            Apb2Stage(self,
                Apb1Stage(self,
                    AhbStage(self,
                        SysclkStage(self, checked, StartBuild(regs)))))))

(* struct Clocks, from a finished execution *)
Clocks(x) ==
    [hclk |-> x.hclk_freq, pclk1 |-> x.pclk1_freq, pclk2 |-> x.pclk2_freq,
     ppre1 |-> x.ppre1, ppre2 |-> x.ppre2, sysclk |-> x.sysclk_freq]

-----------------------------------------------------------------------------
(* Inputs *)
Sources == {HSI, HSE(4000000), HSE(25000000), HSE(26000000), HSE(1000000),
            HSE(0),
            HSE(130000000)}

PllArgs == {<<168, 2, 7>>, <<339, 2, 7>>, <<216, 8, 15>>, <<50, 2, 2>>,
            <<49, 2, 7>>, <<433, 4, 7>>, <<168, 3, 7>>, <<168, 0, 7>>,
            <<168, 2, 1>>, <<168, 2, 16>>, <<336, 2, 7>>, <<200, 2, 7>>}

AhbScales == {2, 32}
Apb1Scales == {4, 3}
Apb2Scales == {2, 3}

(* register contents found by build(): after reset, or left by earlier code *)
InitialHw ==
    {[cfgr |-> CFGR_RESET, pllcfgr |-> PLLCFGR_RESET, acr |-> ACR_RESET],
     [cfgr |-> [hpre |-> 9, ppre1 |-> 5, ppre2 |-> 4, sw |-> 1],
      pllcfgr |-> [pllsrc |-> 1, pllm |-> 4, plln |-> 168, pllp |-> 1, pllq |-> 7],
      acr |-> [latency |-> 5]]}

-----------------------------------------------------------------------------
Init ==
    /\ builder = constrain
    /\ hw \in InitialHw
    /\ overflow_checks \in BOOLEAN
    /\ phase = "building"
    /\ clocks = None
    /\ writes = <<>>
    /\ panic = "none"
    /\ wrapped = FALSE
    /\ pll_source = HSI

Configure(next) ==
    /\ phase = "building"
    /\ builder' = next
    /\ UNCHANGED <<hw, overflow_checks, phase, clocks, writes, panic, wrapped>>

CallSource(src) ==
    /\ Configure(source(builder, src))
    /\ UNCHANGED pll_source

CallEnablePll(n, p, q) ==
    /\ Configure(enable_pll(builder, n, p, q))
    /\ pll_source' = builder.source

CallAhbPrescale(scale) ==
    /\ Configure(ahb_prescale(builder, scale))
    /\ UNCHANGED pll_source

CallApb1Prescale(scale) ==
    /\ Configure(apb1_prescale(builder, scale))
    /\ UNCHANGED pll_source

CallApb2Prescale(scale) ==
    /\ Configure(apb2_prescale(builder, scale))
    /\ UNCHANGED pll_source

CallBuild ==
    /\ phase = "building"
    /\ LET x == build(builder, hw, overflow_checks) IN
        /\ hw' = [cfgr |-> x.cfgr, pllcfgr |-> x.pllcfgr, acr |-> x.acr]
        /\ writes' = x.writes
        /\ panic' = x.panic
        /\ wrapped' = x.wrapped
        /\ phase' = IF x.panic = "none" THEN "returned" ELSE "panicked"
        /\ clocks' = IF x.panic = "none" THEN Some(Clocks(x)) ELSE None
    /\ UNCHANGED <<builder, overflow_checks, pll_source>>

Next ==
    \/ \E src \in Sources : CallSource(src)
    \/ \E a \in PllArgs : CallEnablePll(a[1], a[2], a[3])
    \/ \E s \in AhbScales : CallAhbPrescale(s)
    \/ \E s \in Apb1Scales : CallApb1Prescale(s)
    \/ \E s \in Apb2Scales : CallApb2Prescale(s)
    \/ CallBuild

Spec == Init /\ [][Next]_vars

-----------------------------------------------------------------------------
(* The prescaler tables: every power of two up to 2^MaxShift, and 3, as    *)
(* the requested divisor of each bus, at 16 MHz and at 168 MHz.            *)
MaxShift == 9
Scales == {2^k : k \in 0..MaxShift} \cup {3}

NextPrescale ==
    \/ \E src \in {HSI, HSE(168000000)} : CallSource(src)
    \/ CallEnablePll(168, 2, 7)
    \/ \E s \in Scales : CallAhbPrescale(s)
    \/ \E s \in Scales : CallApb1Prescale(s)
    \/ \E s \in Scales : CallApb2Prescale(s)
    \/ CallBuild

SpecPrescale == Init /\ [][NextPrescale]_vars

(* The flash latency table: hclk at, and one above, each multiple of       *)
(* 30 MHz up to MaxBand * 30 MHz, and at the 168 MHz ceiling.              *)
MaxBand == 5
BandSources ==
    {HSE(30000000 * k + d) : k \in 0..MaxBand, d \in {0, 1}}
        \cup {HSE(168000000), HSE(168000001), HSI}

NextLatency ==
    \/ \E src \in BandSources : CallSource(src)
    \/ CallEnablePll(168, 2, 7)
    \/ CallAhbPrescale(2)
    \/ \E s \in {4, 8} : CallApb1Prescale(s)
    \/ \E s \in {2, 4} : CallApb2Prescale(s)
    \/ CallBuild

SpecLatency == Init /\ [][NextLatency]_vars

-----------------------------------------------------------------------------
(* Properties *)

Returned == phase = "returned"
PllEnabled == IsSome(builder.pll)
WriteIndices == 1..Len(writes)

(* C1: whenever build() writes the system clock switch (the SW field of   *)
(* RCC_CFGR), it has already written the flash latency to FLASH_ACR        *)
(* earlier in the same execution.                                          *)
C1_FlashLatencyBeforeSwitch ==
    \A i \in WriteIndices :
        writes[i].field = "sw" =>
            \E j \in 1..(i - 1) :
                writes[j].reg = "acr" /\ writes[j].field = "latency"

(* a commit that raised the clock: latency 5 written, then the switch to   *)
(* the PLL                                                                 *)
C1_Witness ==
    /\ Returned
    /\ \E i \in WriteIndices : writes[i].field = "sw" /\ writes[i].bits = SW_PLL
    /\ \E j \in WriteIndices : writes[j].field = "latency" /\ writes[j].bits = 5

(* C2: build() returns a Clocks record only if the AHB prescaler is one   *)
(* of 1,2,4,8,16,64,128,256,512, the APB1 and APB2 prescalers are each one *)
(* of 1,2,4,8,16, and hclk <= 168 MHz, pclk1 <= 42 MHz, pclk2 <= 84 MHz;   *)
(* any other builder state makes it panic.                                 *)
C2_ReturnsOnlyValidBuses ==
    Returned =>
        LET ahb == UnwrapOr(builder.ahb_prescale, 1)
            apb1 == UnwrapOr(builder.apb1_prescale, 1)
            apb2 == UnwrapOr(builder.apb2_prescale, 1)
            c == Unwrap(clocks)
        IN  /\ ahb \in {1, 2, 4, 8, 16, 64, 128, 256, 512}
            /\ apb1 \in {1, 2, 4, 8, 16}
            /\ apb2 \in {1, 2, 4, 8, 16}
            /\ c.hclk <= 168000000 /\ c.sysclk \div ahb <= 168000000
            /\ c.pclk1 <= 42000000 /\ c.sysclk \div apb1 <= 42000000
            /\ c.pclk2 <= 84000000 /\ c.sysclk \div apb2 <= 84000000

(* accepted exactly at the three ceilings *)
C2_Witness ==
    /\ Returned
    /\ Unwrap(clocks).hclk = 168000000
    /\ Unwrap(clocks).pclk1 = 42000000
    /\ Unwrap(clocks).pclk2 = 84000000

(* the VCO frequency (source_freq / m) * n as an exact integer, in limbs *)
ExactVco ==
    LET pll == Unwrap(builder.pll)
    IN  MulLimbs(SourceFreq(builder.source) \div pll[1], pll[2])

(* C3: with the PLL enabled, build() returns a record only if             *)
(* 2 <= m <= 63, 50 <= n <= 432, p is 2, 4, 6 or 8, 2 <= q <= 15 and       *)
(* 100 MHz <= (source_freq / m) * n <= 432 MHz.                            *)
C3_ReturnsOnlyValidPll ==
    (Returned /\ PllEnabled) =>
        LET pll == Unwrap(builder.pll)
        IN  /\ 2 <= pll[1] /\ pll[1] <= 63
            /\ 50 <= pll[2] /\ pll[2] <= 432
            /\ pll[3] \in {2, 4, 6, 8}
            /\ 2 <= pll[4] /\ pll[4] <= 15
            /\ ~Overflows(ExactVco)
            /\ LimbsWithin(ExactVco, 100000000, 432000000)

PllRangePanics ==
    {"sysclk: divide by zero (pll_m)", "sysclk: divide by zero (pll_p)",
     "assert pll_m", "assert pll_n", "assert pll_p", "assert pll_q",
     "assert vco_freq"}

(* C4: when build() panics because m, n, p, q or the VCO frequency is out *)
(* of range, it has written nothing to RCC_PLLCFGR.                        *)
C4_NoPllWriteBeforePllPanic ==
    panic \in PllRangePanics =>
        \A i \in WriteIndices : writes[i].reg # "pllcfgr"

(* C5: after a successful build() with the PLL enabled, RCC_PLLCFGR holds *)
(* the source-select flag, m, n, the bit code of p and q together.         *)
C5_PllFieldsHeldTogether ==
    (Returned /\ PllEnabled) =>
        LET pll == Unwrap(builder.pll)
        IN  hw.pllcfgr =
                [pllsrc |-> IF builder.source.kind = "HSI" THEN 0 ELSE 1,
                 pllm |-> pll[1], plln |-> pll[2],
                 pllp |-> (pll[3] \div 2) - 1, pllq |-> pll[4]]

(* C6: the APB2 stage of build() writes the APB2 prescaler field (PPRE2)  *)
(* of RCC_CFGR and never the APB1 field (PPRE1).                           *)
C6_Apb2WritesOwnField ==
    \A i \in WriteIndices :
        writes[i].stage = "apb2" =>
            writes[i].reg = "cfgr" /\ writes[i].field = "ppre2"

(* m as enable_pll should compute it from a source: 8 for the internal    *)
(* oscillator, the least k with k * 2 MHz >= freq for an external one      *)
CeilM(src) ==
    IF src.kind = "HSI" THEN 8
    ELSE CHOOSE k \in 0..(src.freq \div 2000000 + 1) :
            /\ k * 2000000 >= src.freq
            /\ k = 0 \/ (k - 1) * 2000000 < src.freq

(* C7: the m held by the builder, and used by build(), is the one         *)
(* computed at the latest enable_pll call from the source then in effect; *)
(* a later source() call leaves it as it is.                               *)
C7_MFixedAtEnablePll ==
    PllEnabled =>
        /\ Unwrap(builder.pll)[1] = CeilM(pll_source)
        /\ Returned =>
              \E i \in WriteIndices :
                  writes[i].field = "pllm" /\ writes[i].bits = CeilM(pll_source)

(* a commit on an external source whose m was computed from the internal   *)
(* one, and differs from what enable_pll after source() would have stored  *)
C7_Witness ==
    /\ Returned /\ PllEnabled
    /\ builder.source.kind = "HSE" /\ pll_source = HSI
    /\ Unwrap(builder.pll)[1] = 8
    /\ CeilM(builder.source) # 8

(* C8: the default builder, committed as it is, returns a record with     *)
(* sysclk = hclk = pclk1 = pclk2 = 16 MHz.                                 *)
C8_DefaultIs16MHz ==
    (builder = constrain /\ phase # "building") =>
        /\ Returned
        /\ Unwrap(clocks).sysclk = 16000000
        /\ Unwrap(clocks).hclk = 16000000
        /\ Unwrap(clocks).pclk1 = 16000000
        /\ Unwrap(clocks).pclk2 = 16000000

C8_Witness == builder = constrain /\ Returned /\ Len(writes) = 5

(* the latency code of the table: the number of thresholds below hclk *)
TableLatency(hclk) ==
    Cardinality({t \in {30000000, 60000000, 90000000, 120000000, 150000000} :
                    hclk > t})

(* C9: the flash latency code build() writes is the table's code for hclk,*)
(* with inclusive upper bounds.                                            *)
C9_LatencyFollowsTable ==
    Returned =>
        /\ hw.acr.latency = TableLatency(Unwrap(clocks).hclk)
        /\ \A i \in WriteIndices :
              writes[i].reg = "acr" =>
                  /\ writes[i].field = "latency"
                  /\ writes[i].bits = TableLatency(Unwrap(clocks).hclk)

(* one above the first threshold: code 1 *)
C9_Witness ==
    /\ Returned
    /\ Unwrap(clocks).hclk = 30000001
    /\ hw.acr.latency = 1

(* C10: every returned record has sysclk = ((source_freq / m) * n) / p    *)
(* with the PLL and source_freq without, hclk, pclk1, pclk2 = sysclk       *)
(* divided by the AHB, APB1, APB2 prescaler (1 when absent), and ppre1,    *)
(* ppre2 the APB prescaler values themselves.                              *)
C10_RecordFollowsFormulas ==
    Returned =>
        LET c == Unwrap(clocks)
            ahb == UnwrapOr(builder.ahb_prescale, 1)
            apb1 == UnwrapOr(builder.apb1_prescale, 1)
            apb2 == UnwrapOr(builder.apb2_prescale, 1)
        IN  /\ IF PllEnabled
                THEN /\ ~Overflows(ExactVco)
                     /\ c.sysclk = DivLimbs(ExactVco, Unwrap(builder.pll)[3])
                ELSE c.sysclk = SourceFreq(builder.source)
            /\ c.hclk = c.sysclk \div ahb
            /\ c.pclk1 = c.sysclk \div apb1
            /\ c.pclk2 = c.sysclk \div apb2
            /\ c.ppre1 = apb1 /\ c.ppre1 \in {1, 2, 4, 8, 16}
            /\ c.ppre2 = apb2 /\ c.ppre2 \in {1, 2, 4, 8, 16}

(* C11: build() is deterministic in the builder alone: run on the same    *)
(* builder from any other prior register contents it panics at the same    *)
(* place or returns the same record, and issues the same writes in the     *)
(* same order.                                                             *)
C11_DeterministicInBuilder ==
    phase # "building" =>
        \A regs \in InitialHw :
            LET other == build(builder, regs, overflow_checks)
            IN  /\ other.panic = panic
                /\ other.writes = writes
                /\ other.panic = "none" => Some(Clocks(other)) = clocks

(* a commit that started from non-reset registers (RCC_PLLCFGR, which it   *)
(* never wrote, still holds them) and matches the run from reset           *)
C11_Witness ==
    /\ Returned
    /\ hw.pllcfgr # PLLCFGR_RESET
    /\ Len(writes) = 5
    /\ build(builder, [cfgr |-> CFGR_RESET, pllcfgr |-> PLLCFGR_RESET,
                       acr |-> ACR_RESET], overflow_checks).writes = writes

StagesWritten == {writes[i].stage : i \in WriteIndices}

(* C12: when build() panics in the AHB, APB1 or APB2 stage (prescaler not *)
(* in the table, or frequency above the ceiling), that stage and every     *)
(* later stage have written nothing.                                       *)
C12_NoWriteFromFailingStageOn ==
    /\ panic \in {"Invalid ahb_prescale value (HPRE)", "assert hclk_freq"}
          => writes = <<>>
    /\ panic \in {"Invalid apb1_prescale value (PPRE1)", "assert apb1_freq"}
          => StagesWritten = {"ahb"} /\ Len(writes) = 1
    /\ panic \in {"Invalid apb2_prescale value (PPRE2)", "assert apb2_freq"}
          => StagesWritten = {"ahb", "apb1"} /\ Len(writes) = 2

(* pclk1 over 42 MHz: only the AHB write was issued *)
C12_Witness ==
    /\ panic = "assert apb1_freq"
    /\ Len(writes) = 1
    /\ writes[1].field = "hpre"

(* C13: after a successful build(), RCC_CFGR holds the bit code of the    *)
(* AHB prescaler in HPRE, the bit code of the APB1 prescaler in PPRE1 and  *)
(* the selected system clock source in SW.                                 *)
C13_CfgrHoldsPrescalersAndSwitch ==
    Returned =>
        /\ hw.cfgr.hpre = AhbPrescaleBits(UnwrapOr(builder.ahb_prescale, 1))
        /\ hw.cfgr.ppre1 = Apb1PrescaleBits(UnwrapOr(builder.apb1_prescale, 1))
        /\ hw.cfgr.sw = IF PllEnabled THEN 2
                         ELSE IF builder.source.kind = "HSI" THEN 0 ELSE 1

(* C14: a successful build() with the PLL on an external source used      *)
(* m = ceil(source_freq / 2 MHz) for the source it committed with, so that *)
(* source_freq / m lies between 1 MHz and 2 MHz.                           *)
C14_MMatchesCommittedSource ==
    (Returned /\ PllEnabled /\ builder.source.kind = "HSE") =>
        LET m == Unwrap(builder.pll)[1]
            f == builder.source.freq
        IN  /\ m = CeilM(builder.source)
            /\ 1000000 <= f \div m
            /\ f \div m <= 2000000

(* C14 as amended: the same, for commits whose source is still the one    *)
(* that was in effect at the latest enable_pll call.                       *)
C14_MMatchesSourceAtEnablePll ==
    (Returned /\ PllEnabled /\ builder.source.kind = "HSE"
        /\ builder.source = pll_source) =>
        LET m == Unwrap(builder.pll)[1]
            f == builder.source.freq
        IN  /\ m = CeilM(builder.source)
            /\ 1000000 <= f \div m
            /\ f \div m <= 2000000

(* 25 MHz external, enable_pll after source(): m = 13, input 1.92 MHz *)
C14_Witness ==
    /\ Returned /\ PllEnabled
    /\ builder.source = HSE(25000000) /\ pll_source = HSE(25000000)
    /\ Unwrap(builder.pll)[1] = 13

SwitchWrites == {i \in WriteIndices : writes[i].field = "sw"}

(* C15: a successful build() writes the system clock switch exactly once, *)
(* as its last register write: the PLL if and only if the PLL is enabled,  *)
(* otherwise the oscillator of the source; every RCC_PLLCFGR write         *)
(* precedes it.                                                            *)
C15_OneSwitchWriteLast ==
    Returned =>
        /\ SwitchWrites = {Len(writes)}
        /\ writes[Len(writes)].reg = "cfgr"
        /\ writes[Len(writes)].bits =
              (IF PllEnabled THEN 2
               ELSE IF builder.source.kind = "HSI" THEN 0 ELSE 1)
        /\ \A i \in WriteIndices :
              writes[i].reg = "pllcfgr" => PllEnabled /\ i < Len(writes)

(* with the PLL: five RCC_PLLCFGR writes, then the switch to the PLL *)
C15_Witness ==
    /\ Returned /\ PllEnabled
    /\ Len(writes) = 10
    /\ Cardinality({i \in WriteIndices : writes[i].reg = "pllcfgr"}) = 5
    /\ writes[10].field = "sw" /\ writes[10].bits = 2

(* C16: for every builder that build() accepts with the PLL enabled, the  *)
(* product (source_freq / m) * n fits 32 bits, so no value reduced modulo  *)
(* 2^32 passes the VCO check.                                              *)
C16_AcceptedVcoFitsU32 ==
    (Returned /\ PllEnabled) => (~wrapped /\ ~Overflows(ExactVco))

(* The configuration calls alone, on fewer sources and coefficients.       *)
FrameSources == {HSI, HSE(4000000), HSE(26000000)}
FramePllArgs == {<<168, 2, 7>>, <<339, 2, 7>>, <<50, 4, 2>>}

NextFrame ==
    \/ \E src \in FrameSources : CallSource(src)
    \/ \E a \in FramePllArgs : CallEnablePll(a[1], a[2], a[3])
    \/ \E s \in AhbScales : CallAhbPrescale(s)
    \/ \E s \in Apb1Scales : CallApb1Prescale(s)
    \/ \E s \in Apb2Scales : CallApb2Prescale(s)
    \/ CallBuild

SpecFrame == Init /\ [][NextFrame]_vars

(* one builder call: the named field takes the argument and nothing else   *)
(* of the builder changes                                                  *)
OnlyFieldSet(field, value) ==
    /\ builder'[field] = value
    /\ \A g \in DOMAIN builder : g # field => builder'[g] = builder[g]

(* C17: each configuration call changes only its own field, to its        *)
(* argument; calls that set different prescalers commute.                  *)
C17_CallsChangeOwnFieldOnly ==
    [][ /\ \A s \in FrameSources : CallSource(s) => OnlyFieldSet("source", s)
        /\ \A a \in FramePllArgs :
              CallEnablePll(a[1], a[2], a[3]) =>
                  /\ OnlyFieldSet("pll", Some(<<Unwrap(builder'.pll)[1],
                                                a[1], a[2], a[3]>>))
        /\ \A s \in AhbScales :
              CallAhbPrescale(s) => OnlyFieldSet("ahb_prescale", Some(s))
        /\ \A s \in Apb1Scales :
              CallApb1Prescale(s) => OnlyFieldSet("apb1_prescale", Some(s))
        /\ \A s \in Apb2Scales :
              CallApb2Prescale(s) => OnlyFieldSet("apb2_prescale", Some(s))
        /\ \A a \in AhbScales, b \in Apb1Scales, c \in Apb2Scales :
              /\ apb1_prescale(ahb_prescale(builder, a), b)
                    = ahb_prescale(apb1_prescale(builder, b), a)
              /\ apb2_prescale(ahb_prescale(builder, a), c)
                    = ahb_prescale(apb2_prescale(builder, c), a)
              /\ apb2_prescale(apb1_prescale(builder, b), c)
                    = apb1_prescale(apb2_prescale(builder, c), b)
      ]_vars

(* every field set by a call, and committed *)
C17_Witness ==
    /\ Returned /\ PllEnabled
    /\ builder.source # HSI
    /\ builder.ahb_prescale = Some(2)
    /\ builder.apb1_prescale = Some(4)
    /\ builder.apb2_prescale = Some(2)

(* C18: in every returned record pclk1 <= hclk and pclk2 <= hclk.         *)
C18_PclkAtMostHclk ==
    Returned =>
        /\ Unwrap(clocks).pclk1 <= Unwrap(clocks).hclk
        /\ Unwrap(clocks).pclk2 <= Unwrap(clocks).hclk

====
